---- MODULE Spec2Model ----
(***************************************************************************)
(* Model of the commission engine of primapp (src/app.py).                 *)
(*                                                                         *)
(* Representation                                                          *)
(*   - Python str / SQLite TEXT values that the code inspects (dates, job  *)
(*     types, quarters, form fields) are sequences of one-character        *)
(*     strings, so that strip(), lower(), max() on strings, substr() and   *)
(*     the parsers are modelled by what they do.  User names are only ever *)
(*     compared for equality and are plain strings.                        *)
(*   - Python float / SQLite REAL values are exact rationals <<n, d>> in   *)
(*     lowest terms with d > 0; float("nan") is <<0, 0>>.                  *)
(*   - Optional[T] / NULL: None is <<>>, a present value x is <<x>>.       *)
(*   - The reason texts are the source's, with the Turkish letters written *)
(*     in ASCII.                                                           *)
(*   - Spec, SpecTotals: a request handler is one action.  req holds the   *)
(*     page the quarterly report rendered from the tables of that state;   *)
(*     handling any other request resets it.                               *)
(*   - SpecSales, SpecAdmin, SpecSellers: a write request is one action    *)
(*     and req holds the request last handled with its response.           *)
(*   - SpecDates: the same handlers as Spec on other date texts.           *)
(*   - SpecStart: the process starts and restarts on a stored settings     *)
(*     table; req holds the step last taken.                               *)
(*   - SpecConc: a read request is one action per statement and req holds  *)
(*     its local variables; write requests are handled in between.         *)
(*   - SpecCalc: direct calls of the pure functions.                       *)
(***************************************************************************)
EXTENDS Integers, Sequences, FiniteSets, TLC

VARIABLES
    sales,      \* table sales: sequence of rows, row id = index
    settings,   \* table settings: key -> value, for the keys stored
    targets,    \* table targets: set of rows [quarter, seller_username, target_eur]
    call,       \* arguments of a direct call of compute_sale_metrics
    result,     \* Optional metrics record returned by that call
    req         \* the request being handled or last handled (see above)

vars == <<sales, settings, targets, call, result, req>>

----------------------------------------------------------------------------
(* Optional values *)

None == <<>>

Some(x) == <<x>>

IsNone(o) == o = <<>>

Val(o) == o[1]

----------------------------------------------------------------------------
(* Exact rational arithmetic standing for float arithmetic *)

Abs(x) == IF x < 0 THEN -x ELSE x

RECURSIVE GCD(_, _)
GCD(a, b) == IF b = 0 THEN a ELSE GCD(b, a % b)

Rat(n, d) ==
    LET g == GCD(Abs(n), Abs(d))
        s == IF d < 0 THEN -1 ELSE 1
    IN  <<(s * n) \div g, (s * d) \div g>>

Int2R(i) == <<i, 1>>

Zero == Int2R(0)

RAdd(a, b) == Rat(a[1] * b[2] + b[1] * a[2], a[2] * b[2])

RSub(a, b) == Rat(a[1] * b[2] - b[1] * a[2], a[2] * b[2])

RMul(a, b) == Rat(a[1] * b[1], a[2] * b[2])

RDiv(a, b) == Rat(a[1] * b[2], a[2] * b[1])

\* float("nan"): the one float that is not a rational; it compares false with
\* everything
NaN == <<0, 0>>

RLt(a, b) == a # NaN /\ b # NaN /\ a[1] * b[2] < b[1] * a[2]

RLe(a, b) == a # NaN /\ b # NaN /\ a[1] * b[2] <= b[1] * a[2]

RGe(a, b) == RLe(b, a)

RGt(a, b) == RLt(b, a)

\* Python's `x or 0.0` on an Optional[float]: None and 0.0 are both falsy
OrZero(o) == IF IsNone(o) THEN Zero ELSE Val(o)

\* Python's truth value of an Optional[float]
TruthyNum(o) == ~IsNone(o) /\ Val(o) # Zero

----------------------------------------------------------------------------
(* Characters and strings *)

Digits == <<"0", "1", "2", "3", "4", "5", "6", "7", "8", "9">>

IsDigit(c) == \E i \in 1..10 : Digits[i] = c

DigitVal(c) == (CHOOSE i \in 1..10 : Digits[i] = c) - 1

UpperCh == <<"A", "D", "E", "J", "N", "O", "P", "R", "S", "T">>

LowerCh == <<"a", "d", "e", "j", "n", "o", "p", "r", "s", "t">>

\* str.lower() on one character
LowerOf(c) ==
    IF \E i \in 1..Len(UpperCh) : UpperCh[i] = c
    THEN LowerCh[CHOOSE i \in 1..Len(UpperCh) : UpperCh[i] = c]
    ELSE c

Lower(s) == [i \in 1..Len(s) |-> LowerOf(s[i])]

RECURSIVE LStrip(_)
LStrip(s) == IF s # <<>> /\ Head(s) = " " THEN LStrip(Tail(s)) ELSE s

RECURSIVE RStrip(_)
RStrip(s) ==
    IF s # <<>> /\ s[Len(s)] = " " THEN RStrip(SubSeq(s, 1, Len(s) - 1)) ELSE s

\* str.strip()
Strip(s) == RStrip(LStrip(s))

\* code point of the characters that occur in dates and quarters
Ord(c) ==
    CASE c = " " -> 32
      [] c = "-" -> 45
      [] c = "." -> 46
      [] IsDigit(c) -> 48 + DigitVal(c)
      [] c = "Q" -> 81
      [] OTHER -> 97

\* Python's a < b on str: lexicographic by code point
RECURSIVE StrLess(_, _)
StrLess(a, b) ==
    IF b = <<>> THEN FALSE
    ELSE IF a = <<>> THEN TRUE
    ELSE IF Ord(Head(a)) # Ord(Head(b)) THEN Ord(Head(a)) < Ord(Head(b))
    ELSE StrLess(Tail(a), Tail(b))

\* int(s) for a string of digits
RECURSIVE DigitsToInt(_)
DigitsToInt(s) ==
    IF s = <<>> THEN 0
    ELSE 10 * DigitsToInt(SubSeq(s, 1, Len(s) - 1)) + DigitVal(s[Len(s)])

\* str(n) for n >= 0, no padding
RECURSIVE Decimal(_)
Decimal(n) ==
    IF n < 10 THEN <<Digits[n + 1]>>
    ELSE Decimal(n \div 10) \o <<Digits[(n % 10) + 1]>>

\* zero-padded decimal of width w
RECURSIVE Pad(_, _)
Pad(n, w) == IF w = 0 THEN <<>> ELSE Pad(n \div 10, w - 1) \o <<Digits[(n % 10) + 1]>>

\* date(y, m, d).isoformat()
IsoFormat(y, m, d) == Pad(y, 4) \o <<"-">> \o Pad(m, 2) \o <<"-">> \o Pad(d, 2)

\* datetime.fromisoformat(iso).date() as <<year, month, day>>
FromIso(iso) ==
    <<DigitsToInt(SubSeq(iso, 1, 4)),
      DigitsToInt(SubSeq(iso, 6, 7)),
      DigitsToInt(SubSeq(iso, 9, 10))>>

\* Python's truth value of an Optional[str]: None and "" are falsy
TruthyStr(o) == ~IsNone(o) /\ Val(o) # <<>>

----------------------------------------------------------------------------
(* Program constants *)

ADMIN_USERNAME == "ilter"

DEFAULT_STANDARD_RATE_PCT == Int2R(3)

DEFAULT_PROJECT_RATE_PCT == Int2R(3)

DEFAULT_OVERRIDE_RATE_PCT == Int2R(1)

MIN_MARGIN == Rat(20, 100)

LOCAL_TL_KEYS ==
    <<"ic_nakliye_tl", "gumruk_vergisi_tl", "ek_gumruk_tl",
      "gumruk_masraf_tl", "komisyon_tl", "diger_tl">>

\* the sellers seeded by ensure_defaults
Sellers == {"nilufer", "pinar", "burcu"}

----------------------------------------------------------------------------
(* Helpers of the source *)

eur_from_tl(tl, kur) ==
    IF IsNone(tl) \/ IsNone(kur) \/ Val(kur) = Zero
    THEN Zero
    ELSE RDiv(Val(tl), Val(kur))

\* mutant of quarter_from_iso: the quarter is month // 3 + 1
quarter_from_iso_OffByOne(iso_date) ==
    IF ~TruthyStr(iso_date) THEN None
    ELSE LET dt == FromIso(Val(iso_date))
             q  == (dt[2] \div 3) + 1
         IN  Some(Decimal(dt[1]) \o <<"-", "Q">> \o Decimal(q))

quarter_from_iso(iso_date) ==
    IF ~TruthyStr(iso_date) THEN None
    ELSE LET dt == FromIso(Val(iso_date))
             q  == ((dt[2] - 1) \div 3) + 1
         IN  Some(Decimal(dt[1]) \o <<"-", "Q">> \o Decimal(q))

\* Python's max(a, b): the first of the largest
StrMax(a, b) == IF StrLess(a, b) THEN b ELSE a

later_date(a, b) ==
    IF ~TruthyStr(a) /\ ~TruthyStr(b) THEN None
    ELSE IF TruthyStr(a) /\ ~TruthyStr(b) THEN a
    ELSE IF TruthyStr(b) /\ ~TruthyStr(a) THEN b
    ELSE Some(StrMax(Val(a), Val(b)))

pct_to_rate(pct) == RDiv(pct, Int2R(100))

\* dict.get(key): Optional value
Get(d, k) == IF k \in DOMAIN d THEN Some(d[k]) ELSE None

\* dict.get(key, default)
GetOr(d, k, dflt) == IF k \in DOMAIN d THEN d[k] ELSE dflt

get_rates(s) ==
    [std_pct |-> GetOr(s, "standard_rate_pct", DEFAULT_STANDARD_RATE_PCT),
     prj_pct |-> GetOr(s, "project_rate_pct", DEFAULT_PROJECT_RATE_PCT),
     ovr_pct |-> GetOr(s, "override_rate_pct", DEFAULT_OVERRIDE_RATE_PCT)]

Half == Rat(1, 2)

One == Int2R(1)

\* mutant of seller_target_factor: the 80% boundary is exclusive
seller_target_factor_StrictHalf(seller, quarter, totals, tgts) ==
    IF ~TruthyStr(quarter) THEN Zero
    ELSE LET key == <<seller, Val(quarter)>>
             tgt == Get(tgts, key)
         IN  IF ~TruthyNum(tgt) \/ RLe(Val(tgt), Zero) THEN Zero
             ELSE LET total == GetOr(totals, key, Zero)
                      ratio == RDiv(total, Val(tgt))
                  IN  IF RGe(ratio, One) THEN One
                      ELSE IF RGt(ratio, Rat(8, 10)) THEN Half
                      ELSE Zero

\* mutant of seller_target_factor: a missing or zero target is not a reason to
\* withhold the factor (the ratio is then taken against the total itself)
seller_target_factor_NoTargetCheck(seller, quarter, totals, tgts) ==
    IF ~TruthyStr(quarter) THEN Zero
    ELSE LET key   == <<seller, Val(quarter)>>
             tgt   == Get(tgts, key)
             total == GetOr(totals, key, Zero)
         IN  IF ~TruthyNum(tgt) \/ RLe(Val(tgt), Zero)
             THEN (IF RGt(total, Zero) THEN One ELSE Zero)
             ELSE LET ratio == RDiv(total, Val(tgt))
                  IN  IF RGe(ratio, One) THEN One
                      ELSE IF RGe(ratio, Rat(8, 10)) THEN Half
                      ELSE Zero

seller_target_factor(seller, quarter, totals, tgts) ==
    IF ~TruthyStr(quarter) THEN Zero
    ELSE LET key == <<seller, Val(quarter)>>
             tgt == Get(tgts, key)
         IN  IF ~TruthyNum(tgt) \/ RLe(Val(tgt), Zero) THEN Zero
             ELSE LET total == GetOr(totals, key, Zero)
                      ratio == RDiv(total, Val(tgt))
                  IN  IF RGe(ratio, One) THEN One
                      ELSE IF RGe(ratio, Rat(8, 10)) THEN Half
                      ELSE Zero

STANDART == <<"s", "t", "a", "n", "d", "a", "r", "t">>

\* mutant of JobKey: the job type is case-folded but not trimmed
JobKey_NoStrip(job_type) == Lower(IF IsNone(job_type) THEN <<>> ELSE Val(job_type))

\* (job_type or "").strip().lower()
JobKey(job_type) == Lower(Strip(IF IsNone(job_type) THEN <<>> ELSE Val(job_type)))

\* mutant of commission_rate: the scaled-down project rate is floored at 0
commission_rate_Floored(margin, job_type, std_pct, prj_pct) ==
    IF IsNone(margin) THEN Zero
    ELSE LET jt  == JobKey(job_type)
             std == pct_to_rate(std_pct)
             prj == pct_to_rate(prj_pct)
         IN  IF jt = STANDART
             THEN IF RLt(Val(margin), MIN_MARGIN) THEN Zero ELSE std
             ELSE IF RGe(Val(margin), MIN_MARGIN) THEN prj
             ELSE IF RLt(Val(margin), Zero) THEN Zero
             ELSE RMul(prj, RDiv(Val(margin), MIN_MARGIN))

commission_rate(margin, job_type, std_pct, prj_pct) ==
    IF IsNone(margin) THEN Zero
    ELSE LET jt  == JobKey(job_type)
             std == pct_to_rate(std_pct)
             prj == pct_to_rate(prj_pct)
         IN  IF jt = STANDART
             THEN IF RLt(Val(margin), MIN_MARGIN) THEN Zero ELSE std
             ELSE IF RGe(Val(margin), MIN_MARGIN) THEN prj
             ELSE RMul(prj, RDiv(Val(margin), MIN_MARGIN))

OverrideSellers == {"pinar", "burcu"}

OverrideRecipient == "nilufer"

RECURSIVE LocalSum(_, _, _)
LocalSum(r, kur, i) ==
    IF i = 0 THEN Zero
    ELSE RAdd(LocalSum(r, kur, i - 1), eur_from_tl(r[LOCAL_TL_KEYS[i]], kur))

R_NO_ELIG == "Hakedis yok (tahsilat + teslim tamam degil)."

R_NO_QUARTER == "Hakedis ceyregi bulunamadi."

R_NO_TARGET == "Bu ceyrek hedefi girilmedi (hedef yoksa prim yok)."

R_BELOW_TARGET == "Hedef %80 alti (prim yok)."

R_LOW_MARGIN == "Standart iste karlilik %20 alti (prim yok)."

R_ACCRUES == "Prim dogar (hakedis + hedef + karlilik kosullari saglandi)."

Reasons ==
    {R_NO_ELIG, R_NO_QUARTER, R_NO_TARGET, R_BELOW_TARGET, R_LOW_MARGIN, R_ACCRUES}

\* mutant of Eligible: one completion date is enough
Eligible_EitherDate(r) == TruthyStr(r.collection_done_date) \/ TruthyStr(r.delivery_done_date)

\* line 325: both completion dates present
Eligible(r) == TruthyStr(r.collection_done_date) /\ TruthyStr(r.delivery_done_date)

\* line 326
HakTarih(r) ==
    IF Eligible(r) THEN later_date(r.collection_done_date, r.delivery_done_date) ELSE None

\* line 327
Quarter(hak_tarih) == IF TruthyStr(hak_tarih) THEN quarter_from_iso(hak_tarih) ELSE None

\* mutant of Margin: an unpriced sale has margin 0
Margin_ZeroWhenUnpriced(profit, sale_eur) ==
    IF RGt(sale_eur, Zero) THEN Some(RDiv(profit, sale_eur)) ELSE Some(Zero)

\* line 323
Margin(profit, sale_eur) ==
    IF RGt(sale_eur, Zero) THEN Some(RDiv(profit, sale_eur)) ELSE None

\* mutant of SellerComm: the target factor is not applied
SellerComm_NoFactor(eligible, sale_eur, rate, factor) ==
    IF eligible THEN RMul(sale_eur, rate) ELSE Zero

\* line 332
SellerComm(eligible, sale_eur, rate, factor) ==
    IF eligible THEN RMul(RMul(sale_eur, rate), factor) ELSE Zero

\* mutant of Override: only pinar's sales carry an override
Override_PinarOnly(eligible, seller, sale_eur, ovr_pct, factor) ==
    IF eligible /\ seller = "pinar"
    THEN RMul(RMul(sale_eur, pct_to_rate(ovr_pct)), factor)
    ELSE Zero

\* lines 335-337
Override(eligible, seller, sale_eur, ovr_pct, factor) ==
    IF eligible /\ seller \in OverrideSellers
    THEN RMul(RMul(sale_eur, pct_to_rate(ovr_pct)), factor)
    ELSE Zero

\* mutant of Reason: the margin test comes before the target-factor test
Reason_MarginFirst(eligible, quarter, seller, tgts, factor, job_type, margin) ==
    IF ~eligible THEN R_NO_ELIG
    ELSE IF IsNone(quarter) THEN R_NO_QUARTER
    ELSE LET tgt == Get(tgts, <<seller, Val(quarter)>>)
         IN  IF ~TruthyNum(tgt) \/ RLe(Val(tgt), Zero) THEN R_NO_TARGET
             ELSE IF JobKey(job_type) = STANDART /\ ~IsNone(margin)
                     /\ RLt(Val(margin), MIN_MARGIN)
                  THEN R_LOW_MARGIN
             ELSE IF factor = Zero THEN R_BELOW_TARGET
             ELSE R_ACCRUES

\* lines 340-355
Reason(eligible, quarter, seller, tgts, factor, job_type, margin) ==
    IF ~eligible THEN R_NO_ELIG
    ELSE IF IsNone(quarter) THEN R_NO_QUARTER
    ELSE LET tgt == Get(tgts, <<seller, Val(quarter)>>)
         IN  IF ~TruthyNum(tgt) \/ RLe(Val(tgt), Zero) THEN R_NO_TARGET
             ELSE IF factor = Zero THEN R_BELOW_TARGET
             ELSE IF JobKey(job_type) = STANDART /\ ~IsNone(margin)
                     /\ RLt(Val(margin), MIN_MARGIN)
                  THEN R_LOW_MARGIN
                  ELSE R_ACCRUES

\* r: a row of sales; totals, tgts: the mappings passed in;
\* s: the settings table read by get_rates() inside the call
compute_sale_metrics(r, totals, tgts, s) ==
    LET rates        == get_rates(s)
        sale_eur     == OrZero(r.sale_eur)
        purchase_eur == OrZero(r.purchase_eur)
        intl         == OrZero(r.international_shipping_eur)
        local_sum    == LocalSum(r, r.local_kur, Len(LOCAL_TL_KEYS))
        total_cost   == RAdd(RAdd(purchase_eur, intl), local_sum)
        profit       == RSub(sale_eur, total_cost)
        margin       == Margin(profit, sale_eur)
        eligible     == Eligible(r)
        hak_tarih    == HakTarih(r)
        quarter      == Quarter(hak_tarih)
        rate         == commission_rate(margin, r.job_type, rates.std_pct, rates.prj_pct)
        factor       == seller_target_factor(r.seller_username, quarter, totals, tgts)
        seller_comm  == SellerComm(eligible, sale_eur, rate, factor)
        override     == Override(eligible, r.seller_username, sale_eur, rates.ovr_pct, factor)
        reason       == Reason(eligible, quarter, r.seller_username, tgts, factor,
                               r.job_type, margin)
    IN  [sale_eur      |-> sale_eur,
         total_cost    |-> total_cost,
         profit        |-> profit,
         margin        |-> margin,
         eligible      |-> eligible,
         hak_tarih     |-> hak_tarih,
         quarter       |-> quarter,
         target_factor |-> factor,
         rate          |-> rate,
         seller_comm   |-> seller_comm,
         override      |-> override,
         reason        |-> reason]

----------------------------------------------------------------------------
(* Inputs of the direct calls: small sets that reach every branch *)

\* number of consecutive years, from 2026 on, in the date sweep
NumYears == 1

N(x) == Some(Int2R(x))

\* a quarter as the administrator types it in the targets form, e.g. 2026-Q1
QKey(y, q) == Decimal(y) \o <<"-", "Q">> \o Decimal(q)

Str_Standart == <<"S", "t", "a", "n", "d", "a", "r", "t">>

Str_STANDART_sp == <<" ", "S", "T", "A", "N", "D", "A", "R", "T", " ">>

Str_Proje == <<"P", "r", "o", "j", "e">>

JobTypeInputs == {None, Some(<<>>), Some(Str_Standart), Some(Str_STANDART_sp), Some(Str_Proje)}

DateInputs ==
    {None, Some(<<>>),
     Some(IsoFormat(2025, 12, 31)), Some(IsoFormat(2026, 3, 31)), Some(IsoFormat(2026, 4, 1))}

\* every month, first and 28th day, of NumYears years
SweepDates ==
    {Some(IsoFormat(y, mo, d)) :
        y \in 2026..(2026 + NumYears - 1), mo \in 1..12, d \in {1, 28}}

Cost(p, i, k, tl) ==
    [purchase_eur |-> p, international_shipping_eur |-> i, local_kur |-> k,
     ic_nakliye_tl |-> tl[1], gumruk_vergisi_tl |-> tl[2], ek_gumruk_tl |-> tl[3],
     gumruk_masraf_tl |-> tl[4], komisyon_tl |-> tl[5], diger_tl |-> tl[6]]

TlZero == <<N(0), N(0), N(0), N(0), N(0), N(0)>>

TlNone == <<None, None, None, None, None, None>>

TlSome == <<N(1000), N(500), None, N(0), N(0), N(0)>>

\* total cost 650 (Scenario A), 800, 850, 900 (Scenario B), 0, 1150, 1000
CostA == Cost(N(600), N(50), N(10), TlZero)

CostInputs ==
    {CostA,
     Cost(N(600), N(50), N(10), TlSome),
     Cost(N(850), None, N(0), TlSome),
     Cost(N(850), N(50), None, TlSome),
     Cost(None, None, None, TlNone),
     Cost(N(1100), N(50), N(10), TlZero),
     Cost(N(950), N(50), N(10), TlZero)}

\* sale price with its costs: a priced sale with every cost profile, and an
\* unpriced (NULL) and a zero-priced row
PricedInputs ==
    {c @@ [sale_eur |-> N(1000)] : c \in CostInputs}
    \cup {CostA @@ [sale_eur |-> None], CostA @@ [sale_eur |-> N(0)]}

\* the six local TL amounts of the cost sweep: 100, 200, 400, 800, 1600, 3200
RECURSIVE TlAmount(_)
TlAmount(i) == IF i = 1 THEN 100 ELSE 2 * TlAmount(i - 1)

\* cost sweep: each local TL component present or NULL, the rate NULL, 0 or 10,
\* purchase and shipping present or NULL
SweepCosts ==
    {Cost(p, i, k, [j \in 1..6 |-> IF j \in present THEN N(TlAmount(j)) ELSE None]) :
        p \in {None, N(600)}, i \in {None, N(50)}, k \in {None, N(0), N(10)},
        present \in SUBSET (1..6)}

SweepPrices == {None, N(0), N(-100), N(1000)}

Settings(std, prj, ovr) ==
    [k \in {"standard_rate_pct", "project_rate_pct", "override_rate_pct"} |->
        IF k = "standard_rate_pct" THEN Int2R(std)
        ELSE IF k = "project_rate_pct" THEN Int2R(prj) ELSE Int2R(ovr)]

\* the seeded defaults, and rates changed by the administrator
SettingsInputs == {Settings(3, 3, 1), Settings(2, 4, 5)}

EmptyDict == [k \in {} |-> Zero]

KeyInputs == Sellers \X {QKey(2025, 4), QKey(2026, 1), QKey(2026, 2)}

Uniform(v) == [k \in KeyInputs |-> Int2R(v)]

TargetsHet ==
    (<<"pinar", QKey(2026, 1)>> :> Int2R(1000)) @@ (<<"pinar", QKey(2026, 2)>> :> Int2R(2000))
    @@ (<<"nilufer", QKey(2026, 1)>> :> Int2R(500)) @@ (<<"burcu", QKey(2026, 2)>> :> Int2R(0))

TotalsHet ==
    (<<"pinar", QKey(2026, 1)>> :> Int2R(900)) @@ (<<"pinar", QKey(2026, 2)>> :> Int2R(900))
    @@ (<<"nilufer", QKey(2026, 1)>> :> Int2R(1000)) @@ (<<"burcu", QKey(2026, 1)>> :> Int2R(5000))
    @@ (<<"burcu", QKey(2026, 2)>> :> Int2R(5000)) @@ (<<"burcu", QKey(2025, 4)>> :> Int2R(100))

TargetsInputs == {EmptyDict, Uniform(0), Uniform(1000), TargetsHet}

TotalsInputs ==
    {EmptyDict, Uniform(700), Uniform(800), Uniform(900), Uniform(1000), Uniform(1200), TotalsHet}

\* <<totals, targets>> passed together to compute_sale_metrics
DictInputs ==
    ({EmptyDict, Uniform(1000)} \X {EmptyDict, Uniform(0)})
    \cup ((TotalsInputs \ {TotalsHet}) \X {Uniform(1000)})
    \cup {<<TotalsHet, TargetsHet>>}

Row(seller, jt, cd, dd, priced) ==
    priced @@ [seller_username |-> seller, job_type |-> jt,
               collection_done_date |-> cd, delivery_done_date |-> dd]

MetricsCall(r, totals, tgts) ==
    [fn |-> "compute_sale_metrics", r |-> r, totals |-> totals, targets |-> tgts]

QuarterInputs == {None, Some(<<>>), Some(QKey(2026, 1)), Some(QKey(2026, 2))}

FactorCalls ==
    {[fn |-> "seller_target_factor", seller |-> s, quarter |-> q, totals |-> tot, targets |-> tg] :
        s \in Sellers, q \in QuarterInputs, tot \in TotalsInputs, tg \in TargetsInputs}

MarginInputs ==
    {None, Some(Rat(-15, 100)), Some(Zero), Some(Rat(10, 100)), Some(Rat(19, 100)),
     Some(Rat(20, 100)), Some(Rat(35, 100)), Some(One)}

RateCalls ==
    {[fn |-> "commission_rate", margin |-> mg, job_type |-> jt, std_pct |-> Int2R(sp), prj_pct |-> Int2R(pp)] :
        mg \in MarginInputs, jt \in JobTypeInputs, sp \in {0, 2, 3}, pp \in {0, 3, 4}}

IdleReq == [pc |-> "idle"]

----------------------------------------------------------------------------
(* Direct calls of the pure functions, on inputs drawn in Init *)

InitCalc ==
    /\ \/ \E s \in Sellers, jt \in JobTypeInputs, cd \in DateInputs, dd \in DateInputs,
             p \in PricedInputs, d \in DictInputs :
               call = MetricsCall(Row(s, jt, cd, dd, p), d[1], d[2])
       \/ \E cd \in SweepDates, dd \in SweepDates :
               call = MetricsCall(Row("pinar", Some(Str_Standart), cd, dd,
                                      CostA @@ [sale_eur |-> N(1000)]),
                                  Uniform(1000), Uniform(1000))
       \/ \E jt \in {Some(Str_Standart), Some(Str_Proje)}, c \in SweepCosts, sp \in SweepPrices :
               call = MetricsCall(Row("pinar", jt, Some(IsoFormat(2026, 3, 31)),
                                      Some(IsoFormat(2026, 3, 31)), c @@ [sale_eur |-> sp]),
                                  Uniform(1000), Uniform(1000))
       \/ call \in FactorCalls
       \/ call \in RateCalls
    /\ settings \in SettingsInputs
    /\ result = None
    /\ sales = <<>>
    /\ targets = {}
    /\ req = IdleReq

CallComputeSaleMetrics ==
    /\ call.fn = "compute_sale_metrics"
    /\ IsNone(result)
    /\ result' = Some(compute_sale_metrics(call.r, call.totals, call.targets, settings))
    /\ UNCHANGED <<sales, settings, targets, call, req>>

CallSellerTargetFactor ==
    /\ call.fn = "seller_target_factor"
    /\ IsNone(result)
    /\ result' = Some(seller_target_factor(call.seller, call.quarter, call.totals, call.targets))
    /\ UNCHANGED <<sales, settings, targets, call, req>>

CallCommissionRate ==
    /\ call.fn = "commission_rate"
    /\ IsNone(result)
    /\ result' = Some(commission_rate(call.margin, call.job_type, call.std_pct, call.prj_pct))
    /\ UNCHANGED <<sales, settings, targets, call, req>>

NextCalc == CallComputeSaleMetrics \/ CallSellerTargetFactor \/ CallCommissionRate

SpecCalc == InitCalc /\ [][NextCalc]_vars

----------------------------------------------------------------------------
(* Form parsing *)

RECURSIVE CountCh(_, _)
CountCh(s, c) ==
    IF s = <<>> THEN 0 ELSE (IF Head(s) = c THEN 1 ELSE 0) + CountCh(Tail(s), c)

\* index of the first occurrence of c in s (c occurs in s)
FirstIdx(s, c) == CHOOSE i \in 1..Len(s) : s[i] = c /\ \A j \in 1..(i - 1) : s[j] # c

\* str.split(sep) for a one-character separator
RECURSIVE Split(_, _)
Split(s, c) ==
    IF CountCh(s, c) = 0 THEN <<s>>
    ELSE LET i == FirstIdx(s, c)
         IN  <<SubSeq(s, 1, i - 1)>> \o Split(SubSeq(s, i + 1, Len(s)), c)

AllDigits(s) == s # <<>> /\ \A i \in 1..Len(s) : IsDigit(s[i])

IsLeap(y) == (y % 4 = 0 /\ y % 100 # 0) \/ y % 400 = 0

DaysInMonth(y, mo) ==
    IF mo = 2 THEN (IF IsLeap(y) THEN 29 ELSE 28)
    ELSE IF mo \in {4, 6, 9, 11} THEN 30 ELSE 31

\* datetime.strptime(s, fmt).date() for the formats %Y-%m-%d (yi = 1, di = 3)
\* and %d.%m.%Y (yi = 3, di = 1): <<y, m, d>> wrapped, or None on ValueError
StrpDate(s, sep, yi, di) ==
    LET parts == Split(s, sep)
    IN  IF Len(parts) # 3 THEN None
        ELSE IF ~(AllDigits(parts[yi]) /\ AllDigits(parts[2]) /\ AllDigits(parts[di])) THEN None
        ELSE IF Len(parts[yi]) # 4 \/ Len(parts[2]) > 2 \/ Len(parts[di]) > 2 THEN None
        ELSE LET y  == DigitsToInt(parts[yi])
                 mo == DigitsToInt(parts[2])
                 d  == DigitsToInt(parts[di])
             IN  IF y >= 1 /\ mo \in 1..12 /\ d >= 1 /\ d <= DaysInMonth(y, mo)
                 THEN Some(<<y, mo, d>>)
                 ELSE None

\* mutant of parse_date: an accepted date is kept as typed
parse_date_AsTyped(str) ==
    LET s  == Strip(str)
        f1 == StrpDate(s, "-", 1, 3)
        f2 == StrpDate(s, ".", 3, 1)
    IN  IF s = <<>> THEN None
        ELSE IF ~IsNone(f1) \/ ~IsNone(f2) THEN Some(s)
        ELSE None

parse_date(str) ==
    LET s  == Strip(str)
        f1 == StrpDate(s, "-", 1, 3)
        f2 == StrpDate(s, ".", 3, 1)
    IN  IF s = <<>> THEN None
        ELSE IF ~IsNone(f1) THEN Some(IsoFormat(Val(f1)[1], Val(f1)[2], Val(f1)[3]))
        ELSE IF ~IsNone(f2) THEN Some(IsoFormat(Val(f2)[1], Val(f2)[2], Val(f2)[3]))
        ELSE None

RECURSIVE Pow10(_)
Pow10(n) == IF n = 0 THEN 1 ELSE 10 * Pow10(n - 1)

\* float(s) for the literals [sign] digits [. digits] and [sign] nan in any
\* case; None on ValueError
ParseFloat(s) ==
    LET neg   == s # <<>> /\ Head(s) = "-"
        body  == IF s # <<>> /\ Head(s) \in {"-", "+"} THEN Tail(s) ELSE s
        parts == Split(body, ".")
    IN  IF Lower(body) = <<"n", "a", "n">> THEN Some(NaN)
        ELSE IF Len(parts) > 2 THEN None
        ELSE LET ip == parts[1]
                 fp == IF Len(parts) = 2 THEN parts[2] ELSE <<>>
             IN  IF ip \o fp = <<>> \/ ~(\A i \in 1..Len(ip \o fp) : IsDigit((ip \o fp)[i]))
                 THEN None
                 ELSE Some(Rat((IF neg THEN -1 ELSE 1) * DigitsToInt(ip \o fp), Pow10(Len(fp))))

safe_float(str) ==
    LET s == [i \in 1..Len(Strip(str)) |->
                 IF Strip(str)[i] = "," THEN "." ELSE Strip(str)[i]]
    IN  IF s = <<>> THEN None ELSE ParseFloat(s)

----------------------------------------------------------------------------
(* The record store and the requests that read and write it *)

\* rows the sales table can hold
MaxSales == 2

Users == {ADMIN_USERNAME} \cup Sellers

\* mutant of is_admin: nobody is the administrator
is_admin_Nobody(u) == FALSE

is_admin(u) == u = ADMIN_USERNAME

\* SELECT username FROM users WHERE role='seller' ORDER BY username
seller_users == <<"burcu", "nilufer", "pinar">>

\* the dictionary built from SELECT quarter, seller_username, target_eur
fetch_targets(tbl) ==
    [k \in {<<r.seller_username, r.quarter>> : r \in tbl} |->
        (CHOOSE r \in tbl : <<r.seller_username, r.quarter>> = k).target_eur]

\* the WHERE clause of the eligible-sales queries
SqlBothDates(r) ==
    /\ ~IsNone(r.collection_done_date) /\ Val(r.collection_done_date) # <<>>
    /\ ~IsNone(r.delivery_done_date) /\ Val(r.delivery_done_date) # <<>>

\* y || '-Q' || (CAST((m-1)/3 AS INTEGER) + 1) of max(collection, delivery)
SqlQuarter(r) ==
    LET hak == StrMax(Val(r.collection_done_date), Val(r.delivery_done_date))
        mo  == DigitsToInt(SubSeq(hak, 6, 7))
    IN  SubSeq(hak, 1, 4) \o <<"-", "Q">> \o Decimal(((mo - 1) \div 3) + 1)

RECURSIVE SumSale(_, _, _)
SumSale(tbl, key, i) ==
    IF i = 0 THEN Zero
    ELSE RAdd(SumSale(tbl, key, i - 1),
              IF SqlBothDates(tbl[i]) /\ ~IsNone(tbl[i].sale_eur)
                 /\ <<tbl[i].seller_username, SqlQuarter(tbl[i])>> = key
              THEN Val(tbl[i].sale_eur) ELSE Zero)

\* mutant of fetch_eligible_sales_totals: the sum of a quarter is taken over
\* the sales of all sellers
fetch_eligible_sales_totals_AllSellers(tbl) ==
    LET keys == {<<tbl[i].seller_username, SqlQuarter(tbl[i])>> :
                    i \in {j \in 1..Len(tbl) : SqlBothDates(tbl[j]) /\ ~IsNone(tbl[j].sale_eur)}}
    IN  [k \in keys |->
            RAdd(RAdd(SumSale(tbl, <<"burcu", k[2]>>, Len(tbl)),
                      SumSale(tbl, <<"nilufer", k[2]>>, Len(tbl))),
                 SumSale(tbl, <<"pinar", k[2]>>, Len(tbl)))]

fetch_eligible_sales_totals(tbl) ==
    LET keys == {<<tbl[i].seller_username, SqlQuarter(tbl[i])>> :
                    i \in {j \in 1..Len(tbl) : SqlBothDates(tbl[j]) /\ ~IsNone(tbl[j].sale_eur)}}
    IN  [k \in keys |-> SumSale(tbl, k, Len(tbl))]

\* the text fields of the sale form, as typed
Str_650 == <<"6", "5", "0">>

Str_900 == <<"9", "0", "0">>

Str_1000 == <<"1", "0", "0", "0">>

Str_1250 == <<"1", "2", "5", "0">>

Str_d0103 == <<"2", "0", "2", "6", "-", "0", "3", "-", "0", "1">>

Str_d3103 == <<"3", "1", ".", "0", "3", ".", "2", "0", "2", "6">>

Str_d0104 == <<"2", "0", "2", "6", "-", "0", "4", "-", "0", "1">>

Str_Q1 == <<"2", "0", "2", "6", "-", "Q", "1">>

Str_Q2 == <<"2", "0", "2", "6", "-", "Q", "2">>

Form(jt, cd, dd, sale, purchase) ==
    [job_type |-> jt, collection_done_date |-> cd, delivery_done_date |-> dd,
     sale_eur |-> sale, purchase_eur |-> purchase, international_shipping_eur |-> <<>>,
     local_kur |-> <<>>, ic_nakliye_tl |-> <<>>, gumruk_vergisi_tl |-> <<>>,
     ek_gumruk_tl |-> <<>>, gumruk_masraf_tl |-> <<>>, komisyon_tl |-> <<>>,
     diger_tl |-> <<>>]

\* a Standart sale completed in 2026-Q1 (margin 0.35), a Proje sale whose later
\* date is in 2026-Q2 (margin 0.10), a Proje sale still to be collected, and a
\* form without a sale price
SaleForms ==
    {Form(Str_Standart, Str_d3103, Str_d0103, Str_1000, Str_650),
     Form(Str_Proje, Str_d3103, Str_d0104, Str_1000, Str_900),
     Form(Str_Proje, <<>>, Str_d0104, Str_1000, Str_900),
     Form(Str_Proje, Str_d3103, Str_d0103, <<>>, Str_650)}

Str_d0999 == <<"0", "9", "9", "9", "-", "0", "1", "-", "0", "5">>

Str_0999Q1 == <<"0", "9", "9", "9", "-", "Q", "1">>

Str_999Q1 == <<"9", "9", "9", "-", "Q", "1">>

\* the forms of the totals specification: the 2026-Q1 sale, a sale still to be
\* collected, and a sale whose completion dates were typed with the year 0999
TotalsForms ==
    {Form(Str_Standart, Str_d3103, Str_d0103, Str_1000, Str_650),
     Form(Str_Proje, <<>>, Str_d0104, Str_1000, Str_900),
     Form(Str_Standart, Str_d0999, Str_d0999, Str_1000, Str_650)}

Str_abc == <<"a", "b", "c">>

Str_nan == <<"n", "a", "n">>

\* what gets typed into the sale price field: a price, nothing, text that is
\* no number, zero, a negative price, and the float literal nan
PriceTexts == {Str_1000, <<>>, Str_abc, <<"0">>, <<"-", "5">>, Str_nan}

\* the forms of the sale-request specification: the 2026-Q1 sale with each
\* price text
PriceForms == {Form(Str_Standart, Str_d3103, Str_d0103, pt, Str_650) : pt \in PriceTexts}

\* the forms of the interleaving specification: the 2026-Q1 sale at two prices
ConcSaleForms ==
    {Form(Str_Standart, Str_d3103, Str_d0103, Str_1000, Str_650),
     Form(Str_Standart, Str_d3103, Str_d0103, Str_1250, Str_650)}

Str_d3002 == <<"2", "0", "2", "6", "-", "0", "2", "-", "3", "0">>

Str_d0104sp == <<" ", "2", "0", "2", "6", "-", "4", "-", "1", " ">>

\* what gets typed into a completion date field: nothing, text that is no
\* date, a day that does not exist, a dotted date, a date without leading
\* zeros between spaces, and a date of the year 0999
DateTexts == {<<>>, Str_abc, Str_d3002, Str_d3103, Str_d0104sp, Str_d0999}

\* the forms of the dates specification: a Proje sale with each pair of date
\* texts
DateForms == {Form(Str_Proje, cd, dd, Str_1000, Str_900) : cd, dd \in DateTexts}

\* every sale form that some specification submits
AllSaleForms == SaleForms \cup TotalsForms \cup PriceForms \cup ConcSaleForms \cup DateForms

\* payload of save_sale (lines 954-974) but for seller_username: the fields
\* of the form the engine reads, parsed
ParseForm(f) ==
    [job_type |-> Some(Strip(f.job_type)),
     collection_done_date |-> parse_date(f.collection_done_date),
     delivery_done_date |-> parse_date(f.delivery_done_date),
     sale_eur |-> safe_float(f.sale_eur),
     purchase_eur |-> safe_float(f.purchase_eur),
     international_shipping_eur |-> safe_float(f.international_shipping_eur),
     local_kur |-> safe_float(f.local_kur),
     ic_nakliye_tl |-> safe_float(f.ic_nakliye_tl),
     gumruk_vergisi_tl |-> safe_float(f.gumruk_vergisi_tl),
     ek_gumruk_tl |-> safe_float(f.ek_gumruk_tl),
     gumruk_masraf_tl |-> safe_float(f.gumruk_masraf_tl),
     komisyon_tl |-> safe_float(f.komisyon_tl),
     diger_tl |-> safe_float(f.diger_tl)]

\* the parsed fields of every form that is submitted (evaluated once)
ParsedForms == [f \in AllSaleForms |-> ParseForm(f)]

\* payload of save_sale (lines 954-974)
Payload(user, f) == ParsedForms[f] @@ [seller_username |-> user]

\* a float bound to a REAL column: SQLite stores NaN as NULL
SqlReal(o) == IF o = Some(NaN) THEN None ELSE o

\* the payload as the row the INSERT and UPDATE statements store
SqlRow(p) ==
    [k \in DOMAIN p |->
        IF k \in {"seller_username", "job_type", "collection_done_date", "delivery_done_date"}
        THEN p[k] ELSE SqlReal(p[k])]

\* UPDATE sales SET ... WHERE id = sale_id: every column but seller_username
UpdateRow(old, p) == [SqlRow(p) EXCEPT !.seller_username = old.seller_username]

\* what a handler leaves behind: the table and the response
Outcome(tbl, status) == [tbl |-> tbl, status |-> status]

\* save_sale(sale_id) by `user` with form f; sale_id = 0 is None.  The
\* response is 403, 404, "rejected" (flash and redirect back to the form) or
\* "saved" (redirect to the dashboard)
save_sale(tbl, user, sale_id, f) ==
    LET p == Payload(user, f)
    IN  IF is_admin(user) THEN Outcome(tbl, "403")
        ELSE IF IsNone(p.sale_eur) \/ RLe(Val(p.sale_eur), Zero) THEN Outcome(tbl, "rejected")
        ELSE IF sale_id = 0 THEN Outcome(Append(tbl, SqlRow(p)), "saved")
        ELSE IF sale_id \notin 1..Len(tbl) THEN Outcome(tbl, "404")
        ELSE IF tbl[sale_id].seller_username # user THEN Outcome(tbl, "403")
        ELSE Outcome([tbl EXCEPT ![sale_id] = UpdateRow(tbl[sale_id], p)], "saved")

\* POST /sale/new by `user`
new_sale(tbl, user, f) ==
    IF is_admin(user) THEN Outcome(tbl, "403") ELSE save_sale(tbl, user, 0, f)

\* POST /sale/<sale_id>/edit by `user`
edit_sale(tbl, user, sale_id, f) ==
    IF is_admin(user) THEN Outcome(tbl, "403")
    ELSE IF sale_id \notin 1..Len(tbl) THEN Outcome(tbl, "404")
    ELSE IF tbl[sale_id].seller_username # user THEN Outcome(tbl, "403")
    ELSE save_sale(tbl, user, sale_id, f)

\* POST /sale/new
NewSale(user, f) ==
    /\ Len(sales) < MaxSales
    /\ sales' = new_sale(sales, user, f).tbl
    /\ req' = IdleReq
    /\ UNCHANGED <<settings, targets, call, result>>

\* POST /sale/<sale_id>/edit
EditSale(user, sale_id, f) ==
    /\ sales' = edit_sale(sales, user, sale_id, f).tbl
    /\ req' = IdleReq
    /\ UNCHANGED <<settings, targets, call, result>>

RateKeys == <<"standard_rate_pct", "project_rate_pct", "override_rate_pct">>

\* the save_rates loop from key i on: it stops at the first rejected value
\* and the connection commits what was executed before it
RECURSIVE RatesLoop(_, _, _)
RatesLoop(s, f, i) ==
    IF i > Len(RateKeys) THEN Outcome(s, "saved")
    ELSE LET v == safe_float(f[RateKeys[i]])
         IN  IF IsNone(v) \/ RLt(Val(v), Zero) THEN Outcome(s, "rejected")
             ELSE RatesLoop((RateKeys[i] :> Val(v)) @@ s, f, i + 1)

\* mutant of save_rates: no administrator check
save_rates_Anyone(s, user, f) == RatesLoop(s, f, 1)

\* POST /settings/save_rates by `user`
save_rates(s, user, f) ==
    IF ~is_admin(user) THEN Outcome(s, "403") ELSE RatesLoop(s, f, 1)

RateForm(a, b, c) ==
    [k \in {"standard_rate_pct", "project_rate_pct", "override_rate_pct"} |->
        IF k = "standard_rate_pct" THEN a ELSE IF k = "project_rate_pct" THEN b ELSE c]

RateForms == {RateForm(<<"2">>, <<"4">>, <<"5">>)}

\* POST /settings/save_rates
SaveRates(user, f) ==
    /\ settings' = save_rates(settings, user, f).tbl
    /\ req' = IdleReq
    /\ UNCHANGED <<sales, targets, call, result>>

TargetRow(quarter, u, val) == [quarter |-> quarter, seller_username |-> u, target_eur |-> val]

\* mutant of Upsert: a plain insert
Upsert_Insert(t, quarter, u, val) == t \cup {TargetRow(quarter, u, val)}

\* INSERT INTO targets ... ON CONFLICT(quarter, seller_username) DO UPDATE
Upsert(t, quarter, u, val) ==
    {r \in t : ~(r.quarter = quarter /\ r.seller_username = u)}
        \cup {TargetRow(quarter, u, val)}

\* the save_targets loop from seller i on: a blank field is skipped, the loop
\* stops at the first negative value and the connection commits what was
\* executed before it
RECURSIVE TargetsLoop(_, _, _, _)
TargetsLoop(t, quarter, f, i) ==
    IF i > Len(seller_users) THEN Outcome(t, "saved")
    ELSE LET u   == seller_users[i]
             val == safe_float(f[u])
         IN  IF IsNone(val) THEN TargetsLoop(t, quarter, f, i + 1)
             ELSE IF RLt(Val(val), Zero) THEN Outcome(t, "rejected")
             ELSE TargetsLoop(Upsert(t, quarter, u, Val(val)), quarter, f, i + 1)

HasQ(s) == \E i \in 1..(Len(s) - 1) : s[i] = "-" /\ s[i + 1] = "Q"

TargetForm(q, n, p, b) ==
    [quarter |-> q, t |-> [u \in Sellers |-> IF u = "nilufer" THEN n ELSE IF u = "pinar" THEN p ELSE b]]

TargetForms ==
    {TargetForm(Str_Q1, <<>>, Str_1000, Str_1250),
     TargetForm(Str_Q1, Str_1000, <<>>, <<>>),
     TargetForm(Str_Q1, <<>>, Str_1250, <<"0">>)}

\* POST /settings/save_targets by `user`
save_targets(t, user, f) ==
    LET quarter == Strip(f.quarter)
    IN  IF ~is_admin(user) THEN Outcome(t, "403")
        ELSE IF quarter = <<>> \/ ~HasQ(quarter) THEN Outcome(t, "rejected")
        ELSE TargetsLoop(t, quarter, f.t, 1)

\* POST /settings/save_targets
SaveTargets(user, f) ==
    /\ targets' = save_targets(targets, user, f).tbl
    /\ req' = IdleReq
    /\ UNCHANGED <<sales, settings, call, result>>

\* SELECT * FROM sales WHERE both completion dates are non-null and non-empty
EligibleRows(tbl) == SelectSeq(tbl, SqlBothDates)

SummaryBase ==
    [sales |-> Zero, target |-> Zero, ratio |-> Zero, factor |-> Zero,
     seller_comm |-> Zero, override |-> Zero]

\* lines 1239-1244: one entry per seller
SummaryInit(q, totals, tgts) ==
    [s \in {seller_users[i] : i \in 1..Len(seller_users)} |->
        LET tgt == GetOr(tgts, <<s, q>>, Zero)
            tot == GetOr(totals, <<s, q>>, Zero)
        IN  [SummaryBase EXCEPT
                !.sales = tot, !.target = tgt,
                !.ratio = IF tgt # Zero /\ RGt(tgt, Zero) THEN RDiv(tot, tgt) ELSE Zero,
                !.factor = seller_target_factor(s, Some(q), totals, tgts)]]

\* lines 1250-1252: the seller commission goes to the selling seller's entry
AddSellerComm(summary, s, m) ==
    IF s \in DOMAIN summary
    THEN [summary EXCEPT ![s].seller_comm = RAdd(@, m.seller_comm)]
    ELSE summary

\* mutant of AddOverride: the override is credited to the selling seller's entry
AddOverride_ToSeller(summary, s, m) ==
    IF s \in OverrideSellers /\ s \in DOMAIN summary
    THEN [summary EXCEPT ![s].override = RAdd(@, m.override)]
    ELSE summary

\* lines 1253-1256: the override of pinar's and burcu's sales goes to nilufer's entry
AddOverride(summary, s, m) ==
    IF s \in OverrideSellers
    THEN LET sm == IF OverrideRecipient \in DOMAIN summary
                   THEN summary
                   ELSE (OverrideRecipient :> SummaryBase) @@ summary
         IN  [sm EXCEPT ![OverrideRecipient].override = RAdd(@, m.override)]
    ELSE summary

\* lines 1246-1256: the summary after the first i rows
RECURSIVE SummaryLoop(_, _, _, _, _, _)
SummaryLoop(q, rows, totals, tgts, s, i) ==
    IF i = 0 THEN SummaryInit(q, totals, tgts)
    ELSE LET prev == SummaryLoop(q, rows, totals, tgts, s, i - 1)
             m    == compute_sale_metrics(rows[i], totals, tgts, s)
         IN  IF m.quarter # Some(q) THEN prev
             ELSE AddOverride(AddSellerComm(prev, rows[i].seller_username, m),
                              rows[i].seller_username, m)

ReportQuarters == {<<>>, Str_Q1, Str_Q2}

\* GET /quarterly?q=...
Quarterly(user, qarg) ==
    /\ is_admin(user)
    /\ LET q      == Strip(qarg)
           totals == fetch_eligible_sales_totals(sales)
           tgts   == fetch_targets(targets)
           rows   == EligibleRows(sales)
       IN  req' = [pc |-> "done", q |-> q,
                   summary |-> (IF q # <<>>
                                THEN SummaryLoop(q, rows, totals, tgts, settings, Len(rows))
                                ELSE EmptyDict)]
    /\ UNCHANGED <<sales, settings, targets, call, result>>

\* the state after init_db() and ensure_defaults() on an empty database
Init ==
    /\ sales = <<>>
    /\ settings = Settings(3, 3, 1)
    /\ targets = {}
    /\ call = [fn |-> "none"]
    /\ result = None
    /\ req = IdleReq

Next ==
    \/ \E u \in Users, f \in SaleForms : NewSale(u, f)
    \/ \E u \in Users, id \in 1..MaxSales, f \in SaleForms : EditSale(u, id, f)
    \/ \E u \in Users, f \in RateForms : SaveRates(u, f)
    \/ \E u \in Users, f \in TargetForms : SaveTargets(u, f)
    \/ \E u \in Users, q \in ReportQuarters : Quarterly(u, q)

Spec == Init /\ [][Next]_vars

----------------------------------------------------------------------------
(* The totals specification: the same handlers, with completion dates in an *)
(* early year among the inputs                                              *)

TotalsTargetForms ==
    {TargetForm(Str_Q1, Str_1000, Str_1000, Str_1000),
     TargetForm(Str_0999Q1, Str_1000, Str_1000, Str_1000)}

TotalsQuarters == {Str_Q1, Str_0999Q1, Str_999Q1}

NextTotals ==
    \/ \E u \in Users, f \in TotalsForms : NewSale(u, f)
    \/ \E u \in Users, id \in 1..MaxSales, f \in TotalsForms : EditSale(u, id, f)
    \/ \E u \in Users, f \in TotalsTargetForms : SaveTargets(u, f)
    \/ \E u \in Users, q \in TotalsQuarters : Quarterly(u, q)

SpecTotals == Init /\ [][NextTotals]_vars

----------------------------------------------------------------------------
(* The sale-request specification: the create and edit requests of every    *)
(* user; req holds the request last handled and its response                *)

Response(op, user, sale_id, f, status) ==
    [pc |-> "response", op |-> op, user |-> user, sale_id |-> sale_id,
     price |-> f.sale_eur, status |-> status]

\* POST /sale/new, with the response
PostNewSale(user, f) ==
    /\ Len(sales) < MaxSales
    /\ sales' = new_sale(sales, user, f).tbl
    /\ req' = Response("new_sale", user, 0, f, new_sale(sales, user, f).status)
    /\ UNCHANGED <<settings, targets, call, result>>

\* POST /sale/<sale_id>/edit, with the response
PostEditSale(user, sale_id, f) ==
    /\ sales' = edit_sale(sales, user, sale_id, f).tbl
    /\ req' = Response("edit_sale", user, sale_id, f, edit_sale(sales, user, sale_id, f).status)
    /\ UNCHANGED <<settings, targets, call, result>>

NextSales ==
    \/ \E u \in Users, f \in PriceForms : PostNewSale(u, f)
    \/ \E u \in Users, id \in 1..MaxSales, f \in PriceForms : PostEditSale(u, id, f)

SpecSales == Init /\ [][NextSales]_vars

----------------------------------------------------------------------------
(* The settings specification: the rate and target submissions of every     *)
(* user, next to sale requests; req holds the request last handled          *)

\* rows the sales table can hold in the settings specification
MaxAdminSales == 1

\* two accepted rate submissions, and one whose second value is no number
AdminRateForms ==
    {RateForm(<<"2">>, <<"4">>, <<"5">>),
     RateForm(<<"3">>, <<"3">>, <<"1">>),
     RateForm(<<"2">>, Str_abc, <<"5">>)}

\* target submissions: two sellers of 2026-Q1 with the third left blank, the
\* third alone, one seller of 2026-Q2, a negative value after an accepted one,
\* and a quarter without -Q
AdminTargetForms ==
    {TargetForm(Str_Q1, <<>>, Str_1000, Str_1250),
     TargetForm(Str_Q1, Str_1000, <<>>, <<>>),
     TargetForm(Str_Q2, <<>>, Str_1250, <<>>),
     TargetForm(Str_Q1, <<"-", "5">>, Str_1000, <<"0">>),
     TargetForm(<<"2", "0", "2", "6">>, Str_1000, Str_1000, Str_1000)}

\* the sale form of the settings specification
AdminSaleForms == {Form(Str_Standart, Str_d3103, Str_d0103, Str_1000, Str_650)}

AdminResponse(op, user, f, status) ==
    [pc |-> "response", op |-> op, user |-> user, form |-> f, status |-> status]

\* POST /settings/save_rates, with the response
PostSaveRates(user, f) ==
    /\ settings' = save_rates(settings, user, f).tbl
    /\ req' = AdminResponse("save_rates", user, f, save_rates(settings, user, f).status)
    /\ UNCHANGED <<sales, targets, call, result>>

\* POST /settings/save_targets, with the response
PostSaveTargets(user, f) ==
    /\ targets' = save_targets(targets, user, f).tbl
    /\ req' = AdminResponse("save_targets", user, f, save_targets(targets, user, f).status)
    /\ UNCHANGED <<sales, settings, call, result>>

NextAdmin ==
    \/ \E u \in Users, f \in AdminRateForms : PostSaveRates(u, f)
    \/ \E u \in Users, f \in AdminTargetForms : PostSaveTargets(u, f)
    \/ \E u \in Users, f \in AdminSaleForms : Len(sales) < MaxAdminSales /\ PostNewSale(u, f)
    \/ \E u \in Users, id \in 1..MaxAdminSales, f \in AdminSaleForms : PostEditSale(u, id, f)

SpecAdmin == Init /\ [][NextAdmin]_vars

----------------------------------------------------------------------------
(* The start-up specification: the process starts on the settings table it  *)
(* finds in the database file, ensure_defaults() runs at every start and    *)
(* restart, and the rate submissions of every user are handled while the    *)
(* server runs; req holds the step last taken                               *)

\* mutant of set_if_missing: the value is written also when the key is stored
set_if_missing_Always(s, k, v) == (k :> v) @@ s

\* set_if_missing(k, v) inside ensure_defaults
set_if_missing(s, k, v) == IF k \in DOMAIN s THEN s ELSE (k :> v) @@ s

\* the settings part of ensure_defaults()
ensure_defaults(s) ==
    set_if_missing(
        set_if_missing(
            set_if_missing(s, "standard_rate_pct", DEFAULT_STANDARD_RATE_PCT),
            "project_rate_pct", DEFAULT_PROJECT_RATE_PCT),
        "override_rate_pct", DEFAULT_OVERRIDE_RATE_PCT)

\* the default of each key
DefaultOf(k) ==
    IF k = "standard_rate_pct" THEN DEFAULT_STANDARD_RATE_PCT
    ELSE IF k = "project_rate_pct" THEN DEFAULT_PROJECT_RATE_PCT
    ELSE DEFAULT_OVERRIDE_RATE_PCT

RateKeySet == {RateKeys[i] : i \in 1..Len(RateKeys)}

\* settings tables found at start: the empty table of a new database, and
\* tables that hold any of the three keys with the value 2 or 3
StoredSettings == UNION {[K -> {Int2R(2), Int2R(3)}] : K \in SUBSET RateKeySet}

InitStart ==
    /\ sales = <<>>
    /\ settings \in StoredSettings
    /\ targets = {}
    /\ call = [fn |-> "none"]
    /\ result = None
    /\ req = [pc |-> "starting"]

\* init_db(); ensure_defaults() at the start of the process; seeded is the
\* set of keys that were not stored
Start ==
    /\ settings' = ensure_defaults(settings)
    /\ req' = [pc |-> "response", op |-> "ensure_defaults",
               seeded |-> RateKeySet \ DOMAIN settings]
    /\ UNCHANGED <<sales, targets, call, result>>

\* POST /settings/save_rates, handled once the server runs
ServeSaveRates(user, f) ==
    /\ req.pc # "starting"
    /\ PostSaveRates(user, f)

NextStart ==
    \/ Start
    \/ \E u \in Users, f \in AdminRateForms : ServeSaveRates(u, f)

SpecStart == InitStart /\ [][NextStart]_vars

----------------------------------------------------------------------------
(* The dates specification: create and edit requests whose completion date  *)
(* fields hold every kind of text, next to a target submission              *)

\* one seller and the administrator
DateUsers == {"pinar", ADMIN_USERNAME}

DateTargetForms == {TargetForm(Str_Q1, Str_1000, Str_1000, Str_1000)}

NextDates ==
    \/ \E u \in DateUsers, f \in DateForms : NewSale(u, f)
    \/ \E u \in DateUsers, id \in 1..MaxSales, f \in DateForms : EditSale(u, id, f)
    \/ \E u \in DateUsers, f \in DateTargetForms : SaveTargets(u, f)

SpecDates == Init /\ [][NextDates]_vars

----------------------------------------------------------------------------
(* The sellers specification: the create and edit requests of the sellers    *)
(* next to the administrator's target submission; req holds the request     *)
(* last handled                                                             *)

\* the 2026-Q1 sale at 1000 and at 1250
SellerSaleForms == ConcSaleForms

\* the target 1250 for every seller in 2026-Q1
SellerTargetForms == {TargetForm(Str_Q1, Str_1250, Str_1250, Str_1250)}

NextSellers ==
    \/ \E u \in Sellers, f \in SellerSaleForms : PostNewSale(u, f)
    \/ \E u \in Sellers, id \in 1..MaxSales, f \in SellerSaleForms : PostEditSale(u, id, f)
    \/ \E f \in SellerTargetForms : PostSaveTargets(ADMIN_USERNAME, f)

SpecSellers == Init /\ [][NextSellers]_vars

----------------------------------------------------------------------------
(* The interleaving specification: one read request of the administrator    *)
(* runs statement by statement while the write requests of other clients    *)
(* are handled in between (the server handles requests in threads, each     *)
(* statement on its own connection).  req holds the local variables of the  *)
(* read request: totals, targets, rows, summary, and out, the rows scored   *)
(* so far.  tbl (the table the rows were read from) and, in each entry of   *)
(* out, the arguments and the rates of the call, and whether the stored     *)
(* tables still gave those arguments when the call was made, are kept for   *)
(* the properties.  Rendering ends the request.                             *)

\* rows the sales table can hold in the interleaving specification
MaxConcSales == 2

\* the seller whose write requests interleave (requests that are refused
\* change nothing and are left out)
ConcSellers == {"pinar"}

ConcTargetForms == {TargetForm(Str_Q1, Str_1000, Str_1000, Str_1000)}

\* the read requests by the statements they execute: "list" is the
\* administrator's dashboard without filters and export_csv (every sale, newest
\* first), "quarterly" is quarterly with q = 2026-Q1, "view" is view_sale_admin
BatchQueries == {"list", "quarterly"}

\* Python's rows[::-1] for ORDER BY id DESC
Reverse(seq) == [i \in 1..Len(seq) |-> seq[Len(seq) + 1 - i]]

\* the rows each handler selects
RowsOf(query, tbl) ==
    IF query = "quarterly" THEN EligibleRows(tbl) ELSE Reverse(tbl)

\* mutant of LoopArgs: the mappings are fetched again for every row
LoopArgs_Refetch(rq, tbl, tg) ==
    [totals |-> fetch_eligible_sales_totals(tbl), targets |-> fetch_targets(tg)]

\* the mappings the scoring loop passes to compute_sale_metrics: the local
\* variables totals and targets of the request
LoopArgs(rq, tbl, tg) == [totals |-> rq.totals, targets |-> rq.targets]

\* one turn of the quarterly loop on the summary (lines 1247-1256)
SummaryStep(summary, q, r, m) ==
    IF m.quarter # Some(q) THEN summary
    ELSE AddOverride(AddSellerComm(summary, r.seller_username, m), r.seller_username, m)

NewReq(pc, query) ==
    [pc |-> pc, query |-> query, totals |-> EmptyDict, targets |-> EmptyDict,
     rows |-> <<>>, tbl |-> <<>>, out |-> <<>>, summary |-> EmptyDict]

\* dashboard, quarterly, export_csv: totals = fetch_eligible_sales_totals()
ReadTotals(query) ==
    /\ req.pc = "idle"
    /\ req' = [NewReq("targets", query) EXCEPT !.totals = fetch_eligible_sales_totals(sales)]
    /\ UNCHANGED <<sales, settings, targets, call, result>>

\* view_sale_admin: r = SELECT * FROM sales WHERE id = sale_id (404 if none)
ViewReadRow(sale_id) ==
    /\ req.pc = "idle"
    /\ sale_id \in 1..Len(sales)
    /\ req' = [NewReq("totals", "view") EXCEPT !.rows = <<sales[sale_id]>>, !.tbl = sales]
    /\ UNCHANGED <<sales, settings, targets, call, result>>

\* view_sale_admin: totals = fetch_eligible_sales_totals()
ViewReadTotals ==
    /\ req.pc = "totals"
    /\ req' = [req EXCEPT !.pc = "targets", !.totals = fetch_eligible_sales_totals(sales)]
    /\ UNCHANGED <<sales, settings, targets, call, result>>

\* targets = fetch_targets()
ReadTargets ==
    /\ req.pc = "targets"
    /\ req' = [req EXCEPT !.pc = IF req.query = "view" THEN "score" ELSE "rows",
                           !.targets = fetch_targets(targets)]
    /\ UNCHANGED <<sales, settings, targets, call, result>>

\* rows = SELECT * FROM sales ...; quarterly then fills in the summary of
\* every seller (lines 1238-1244)
ReadRows ==
    /\ req.pc = "rows"
    /\ req' = [req EXCEPT !.pc = "score", !.rows = RowsOf(req.query, sales), !.tbl = sales,
                           !.summary = IF req.query = "quarterly"
                                       THEN SummaryInit(Str_Q1, req.totals, req.targets)
                                       ELSE EmptyDict]
    /\ UNCHANGED <<sales, settings, targets, call, result>>

\* one turn of the loop: m = compute_sale_metrics(r, totals, targets), whose
\* first statement is get_rates()
ScoreRow ==
    /\ req.pc = "score"
    /\ Len(req.out) < Len(req.rows)
    /\ LET args == LoopArgs(req, sales, targets)
           r    == req.rows[Len(req.out) + 1]
           m    == compute_sale_metrics(r, args.totals, args.targets, settings)
       IN  req' = [req EXCEPT
                      !.out = Append(@, [m |-> m, totals |-> args.totals, targets |-> args.targets,
                                         rates |-> get_rates(settings),
                                         fresh |-> /\ args.totals = fetch_eligible_sales_totals(sales)
                                                   /\ args.targets = fetch_targets(targets)]),
                      !.summary = IF req.query = "quarterly"
                                  THEN SummaryStep(@, Str_Q1, r, m) ELSE @]
    /\ UNCHANGED <<sales, settings, targets, call, result>>

\* the page or file is rendered from the scored rows and the request ends
Render ==
    /\ req.pc = "score"
    /\ Len(req.out) = Len(req.rows)
    /\ req' = IdleReq
    /\ UNCHANGED <<sales, settings, targets, call, result>>

\* the write requests of the other clients
ConcNewSale(user, f) ==
    /\ Len(sales) < MaxConcSales
    /\ sales' = new_sale(sales, user, f).tbl
    /\ UNCHANGED <<settings, targets, call, result, req>>

ConcEditSale(user, sale_id, f) ==
    /\ sales' = edit_sale(sales, user, sale_id, f).tbl
    /\ UNCHANGED <<settings, targets, call, result, req>>

ConcSaveRates(user, f) ==
    /\ settings' = save_rates(settings, user, f).tbl
    /\ UNCHANGED <<sales, targets, call, result, req>>

ConcSaveTargets(user, f) ==
    /\ targets' = save_targets(targets, user, f).tbl
    /\ UNCHANGED <<sales, settings, call, result, req>>

NextConc ==
    \/ \E query \in BatchQueries : ReadTotals(query)
    \/ \E id \in 1..MaxConcSales : ViewReadRow(id)
    \/ ViewReadTotals
    \/ ReadTargets
    \/ ReadRows
    \/ ScoreRow
    \/ Render
    \/ \E u \in ConcSellers, f \in ConcSaleForms : ConcNewSale(u, f)
    \/ \E u \in ConcSellers, id \in 1..MaxConcSales, f \in ConcSaleForms : ConcEditSale(u, id, f)
    \/ \E f \in RateForms : ConcSaveRates(ADMIN_USERNAME, f)
    \/ \E f \in ConcTargetForms : ConcSaveTargets(ADMIN_USERNAME, f)

SpecConc == Init /\ [][NextConc]_vars

----------------------------------------------------------------------------
(* Properties of the calculator, checked under SpecCalc *)

MetricsDone == call.fn = "compute_sale_metrics" /\ ~IsNone(result)

FactorDone == call.fn = "seller_target_factor" /\ ~IsNone(result)

RateDone == call.fn = "commission_rate" /\ ~IsNone(result)

\* a completion date that is NULL or the empty string
Missing(d) == d = None \/ d = Some(<<>>)

BothDates(r) == ~Missing(r.collection_done_date) /\ ~Missing(r.delivery_done_date)

\* the job types of the inputs that are Standard after trimming and case folding
StandardJobs == {Some(Str_Standart), Some(Str_STANDART_sp)}

Factors == {Zero, Half, One}

\* the stored target of a key is absent or not positive
NoTarget(tgts, key) == key \notin DOMAIN tgts \/ ~RGt(tgts[key], Zero)

\* the factor the spec prescribes for a key with a positive target
BandFactor(totals, tgts, key) ==
    LET total == IF key \in DOMAIN totals THEN totals[key] ELSE Zero
        tgt   == tgts[key]
    IN  IF RGe(total, tgt) THEN One
        ELSE IF RGe(RMul(total, Int2R(10)), RMul(tgt, Int2R(8))) THEN Half
        ELSE Zero

\* C1: a sale with a missing (NULL or empty) collection or delivery date is not
\* eligible and has seller commission 0 and override 0, whatever its other inputs.
C1_IneligibleNoCommission ==
    (MetricsDone /\ ~BothDates(call.r)) =>
        /\ Val(result).eligible = FALSE
        /\ Val(result).seller_comm = Zero
        /\ Val(result).override = Zero

\* C1 witness: an override seller's priced sale with only the collection date,
\* whose quarter would have a met target, has been scored.
C1_Witness ==
    /\ MetricsDone
    /\ call.r.seller_username = "pinar"
    /\ call.r.collection_done_date = Some(IsoFormat(2026, 3, 31))
    /\ call.r.delivery_done_date = None
    /\ call.r.sale_eur = N(1000)
    /\ call.r.job_type = Some(Str_Proje)
    /\ call.totals = Uniform(1000) /\ call.targets = Uniform(1000)
    /\ Val(result).eligible = FALSE

\* C2: seller_target_factor returns 0, 0.5 or 1; with a quarter and a positive
\* target it returns 1 iff total/target >= 1, 0.5 iff 0.8 <= total/target < 1,
\* and 0 otherwise.
C2_TargetFactorBands ==
    /\ FactorDone =>
        /\ Val(result) \in Factors
        /\ (TruthyStr(call.quarter)
              /\ ~NoTarget(call.targets, <<call.seller, Val(call.quarter)>>)) =>
                 Val(result) = BandFactor(call.totals, call.targets, <<call.seller, Val(call.quarter)>>)
    /\ MetricsDone => Val(result).target_factor \in Factors

\* C2 witness: total 800 against target 1000 (ratio exactly 0.8) gave 0.5.
C2_Witness ==
    /\ FactorDone
    /\ call.quarter = Some(QKey(2026, 1))
    /\ call.totals = Uniform(800) /\ call.targets = Uniform(1000)
    /\ Val(result) = Half

\* C3: for a Standard job (after trimming and case folding) the commission rate
\* is 0 below a 20% margin and standard_pct/100 from 20% on; a Standard sale
\* below 20% margin has rate 0 and seller commission 0 whatever its factor.
C3_StandardHardCutoff ==
    /\ (RateDone /\ call.job_type \in StandardJobs /\ ~IsNone(call.margin)) =>
          Val(result) = IF RLt(Val(call.margin), Rat(1, 5))
                        THEN Zero
                        ELSE Rat(call.std_pct[1], 100 * call.std_pct[2])
    /\ (MetricsDone /\ call.r.job_type \in StandardJobs /\ ~IsNone(Val(result).margin)
           /\ RLt(Val(Val(result).margin), Rat(1, 5))) =>
          /\ Val(result).rate = Zero
          /\ Val(result).seller_comm = Zero

\* C3 witness: an eligible ' STANDART ' sale with margin 0.10 and factor 1 was scored.
C3_Witness ==
    /\ MetricsDone
    /\ call.r.job_type = Some(Str_STANDART_sp)
    /\ Val(result).eligible
    /\ Val(result).margin = Some(Rat(1, 10))
    /\ Val(result).target_factor = One
    /\ Val(result).rate = Zero

\* C4: for any other job type with a defined margin the rate is project_pct/100
\* from 20% margin on (20% included) and project_pct/100 * margin/0.20 below,
\* not floored: 0 at margin 0, negative below 0.
C4_ProjectLinearScale ==
    (RateDone /\ call.job_type \notin StandardJobs /\ ~IsNone(call.margin)) =>
        LET prj == Rat(call.prj_pct[1], 100 * call.prj_pct[2])
            mg  == Val(call.margin)
        IN  /\ RGe(mg, Rat(1, 5)) => Val(result) = prj
            /\ RLt(mg, Rat(1, 5)) => Val(result) = RMul(prj, RMul(mg, Int2R(5)))
            /\ mg = Zero => Val(result) = Zero
            /\ (RLt(mg, Zero) /\ RGt(prj, Zero)) => RLt(Val(result), Zero)

\* C4 witness: a Proje job with margin -0.15 and project rate 4% got a negative rate.
C4_Witness ==
    /\ RateDone
    /\ call.job_type = Some(Str_Proje)
    /\ call.margin = Some(Rat(-15, 100))
    /\ call.prj_pct = Int2R(4)
    /\ RLt(Val(result), Zero)

\* Scenario A: price 1000, cost 650, Standard, standard rate 3%, factor 1
ScenarioA ==
    /\ MetricsDone
    /\ call.r.sale_eur = N(1000)
    /\ call.r.purchase_eur = N(600) /\ call.r.international_shipping_eur = N(50)
    /\ call.r.local_kur = N(10)
    /\ \A i \in 1..Len(LOCAL_TL_KEYS) : call.r[LOCAL_TL_KEYS[i]] = N(0)
    /\ call.r.job_type = Some(Str_Standart)
    /\ BothDates(call.r)
    /\ settings["standard_rate_pct"] = Int2R(3)
    /\ Val(result).target_factor = One

\* C5: for an eligible sale seller_comm = sale price * reported rate * reported
\* target factor; Scenario A gives total cost 650, margin 0.35, rate 0.03 and
\* seller commission 30.
C5_SellerCommission ==
    /\ (MetricsDone /\ BothDates(call.r)) =>
          Val(result).seller_comm =
              RMul(RMul(OrZero(call.r.sale_eur), Val(result).rate), Val(result).target_factor)
    /\ ScenarioA =>
          /\ Val(result).total_cost = Int2R(650)
          /\ Val(result).profit = Int2R(350)
          /\ Val(result).margin = Some(Rat(35, 100))
          /\ Val(result).rate = Rat(3, 100)
          /\ Val(result).seller_comm = Int2R(30)

\* C5 witness: Scenario A has been scored.
C5_Witness == ScenarioA /\ Val(result).seller_comm = Int2R(30)

\* C6: override is non-zero only for an eligible sale of pinar or burcu; for
\* such a sale it is sale price * override_pct/100 * the reported target factor
\* (the selling seller's own), independent of job type and margin; it is 0 for
\* every other seller.
C6_OverrideOnlyForOverrideSellers ==
    MetricsDone =>
        LET m   == Val(result)
            own == call.r.seller_username \in {"pinar", "burcu"}
        IN  /\ m.override # Zero => (BothDates(call.r) /\ own)
            /\ (BothDates(call.r) /\ own) =>
                  /\ m.override =
                        RMul(RMul(OrZero(call.r.sale_eur),
                                  Rat(settings["override_rate_pct"][1],
                                      100 * settings["override_rate_pct"][2])),
                             m.target_factor)
                  /\ m.target_factor =
                        seller_target_factor(call.r.seller_username, m.quarter,
                                             call.totals, call.targets)
            /\ ~own => m.override = Zero

\* C6 witness (Scenario D): burcu's sale, override rate 1%, factor 0.5, override 5,
\* on a Standard job whose margin is too low for a seller commission.
C6_Witness ==
    /\ MetricsDone
    /\ call.r.seller_username = "burcu"
    /\ call.r.sale_eur = N(1000)
    /\ call.r.job_type = Some(Str_Standart)
    /\ settings["override_rate_pct"] = Int2R(1)
    /\ Val(result).target_factor = Half
    /\ Val(result).seller_comm = Zero
    /\ Val(result).override = Int2R(5)

\* the reason the precedence list of the spec prescribes
ExpectedReason(r, m, tgts) ==
    IF ~BothDates(r) THEN R_NO_ELIG
    ELSE IF IsNone(m.quarter) THEN R_NO_QUARTER
    ELSE IF NoTarget(tgts, <<r.seller_username, Val(m.quarter)>>) THEN R_NO_TARGET
    ELSE IF m.target_factor = Zero THEN R_BELOW_TARGET
    ELSE IF r.job_type \in StandardJobs /\ ~IsNone(m.margin) /\ RLt(Val(m.margin), Rat(1, 5))
         THEN R_LOW_MARGIN
    ELSE R_ACCRUES

\* C8: exactly one reason per sale, by precedence: not eligible, no quarter,
\* no positive target, factor 0, Standard job with margin below 20%, otherwise
\* commission accrues; an earlier condition wins over a later one.
C8_ReasonPrecedence ==
    MetricsDone =>
        /\ Val(result).reason \in Reasons
        /\ Val(result).reason = ExpectedReason(call.r, Val(result), call.targets)

\* C8 witness: an eligible Standard sale with margin below 20% and below 80% of
\* its target got 'below target threshold', the earlier of the two reasons.
C8_Witness ==
    /\ MetricsDone
    /\ BothDates(call.r)
    /\ call.r.job_type \in StandardJobs
    /\ Val(result).margin = Some(Rat(1, 10))
    /\ call.totals = Uniform(700) /\ call.targets = Uniform(1000)
    /\ Val(result).reason = R_BELOW_TARGET

\* C9: with no quarter, no stored target or a target <= 0 the factor is 0
\* whatever the total is; an eligible sale then has seller commission 0 and
\* override 0 and, when it has a quarter, the reason 'no target configured'.
C9_NoTargetNoCommission ==
    /\ (FactorDone /\ (~TruthyStr(call.quarter)
                        \/ NoTarget(call.targets, <<call.seller, Val(call.quarter)>>))) =>
          Val(result) = Zero
    /\ (MetricsDone /\ BothDates(call.r)
          /\ (IsNone(Val(result).quarter)
                \/ NoTarget(call.targets, <<call.r.seller_username, Val(Val(result).quarter)>>))) =>
          /\ Val(result).target_factor = Zero
          /\ Val(result).seller_comm = Zero
          /\ Val(result).override = Zero
          /\ ~IsNone(Val(result).quarter) => Val(result).reason = R_NO_TARGET

\* C9 witness (Scenario C): an eligible sale of an override seller with sales
\* of 1000 in its quarter but a stored target of 0.
C9_Witness ==
    /\ MetricsDone
    /\ BothDates(call.r)
    /\ call.r.seller_username = "pinar"
    /\ call.r.sale_eur = N(1000)
    /\ call.totals = Uniform(1000) /\ call.targets = Uniform(0)
    /\ Val(result).margin = Some(Rat(35, 100))
    /\ Val(result).reason = R_NO_TARGET

\* a date as the number yyyymmdd
DateNum(iso) == LET dt == FromIso(iso) IN dt[1] * 10000 + dt[2] * 100 + dt[3]

\* quarter number of a month: 1-3 -> 1, 4-6 -> 2, 7-9 -> 3, 10-12 -> 4
QuarterOfMonth(mo) ==
    IF mo \in 1..3 THEN 1 ELSE IF mo \in 4..6 THEN 2 ELSE IF mo \in 7..9 THEN 3 ELSE 4

\* C10: an eligible sale's attribution date is the chronologically later of
\* its two completion dates and its quarter is <year>-Q<ceil(month/3)> of that
\* date; an ineligible sale has neither.
C10_AttributionDateAndQuarter ==
    MetricsDone =>
        LET m  == Val(result)
            cd == call.r.collection_done_date
            dd == call.r.delivery_done_date
        IN  IF BothDates(call.r)
            THEN /\ m.hak_tarih \in {cd, dd}
                 /\ DateNum(Val(m.hak_tarih)) >= DateNum(Val(cd))
                 /\ DateNum(Val(m.hak_tarih)) >= DateNum(Val(dd))
                 /\ m.quarter =
                       Some(QKey(FromIso(Val(m.hak_tarih))[1],
                                 QuarterOfMonth(FromIso(Val(m.hak_tarih))[2])))
            ELSE m.hak_tarih = None /\ m.quarter = None

\* C10 witness: collection on 2026-04-01 after delivery on 2026-03-31 is
\* attributed to 2026-04-01, quarter 2026-Q2.
C10_Witness ==
    /\ MetricsDone
    /\ call.r.collection_done_date = Some(IsoFormat(2026, 4, 1))
    /\ call.r.delivery_done_date = Some(IsoFormat(2026, 3, 31))
    /\ Val(result).hak_tarih = Some(IsoFormat(2026, 4, 1))
    /\ Val(result).quarter = Some(QKey(2026, 2))

\* the local costs in EUR as the claim states them: tl / local_kur per
\* component, 0 for a NULL component, a NULL rate or a rate of 0
RECURSIVE ExpectedLocal(_, _)
ExpectedLocal(r, i) ==
    IF i = 0 THEN Zero
    ELSE RAdd(ExpectedLocal(r, i - 1),
              IF IsNone(r[LOCAL_TL_KEYS[i]]) \/ IsNone(r.local_kur) \/ Val(r.local_kur)[1] = 0
              THEN Zero
              ELSE Rat(Val(r[LOCAL_TL_KEYS[i]])[1] * Val(r.local_kur)[2],
                       Val(r[LOCAL_TL_KEYS[i]])[2] * Val(r.local_kur)[1]))

NullAsZero(o) == IF o = None THEN Zero ELSE Val(o)

\* C13: compute_sale_metrics returns well-formed numbers for every cost data:
\* total_cost is purchase + shipping + the local costs converted at local_kur
\* (NULL as 0, nothing for a NULL or zero rate), profit is sale - total_cost,
\* margin is profit / sale for a positive sale price and undefined (never 0)
\* for an absent or non-positive one, and an undefined margin gives rate 0
\* whatever the job type.
C13_CostDataNeverFails ==
    MetricsDone =>
        LET r    == call.r
            m    == Val(result)
            sale == NullAsZero(r.sale_eur)
            cost == RAdd(RAdd(NullAsZero(r.purchase_eur), NullAsZero(r.international_shipping_eur)),
                         ExpectedLocal(r, Len(LOCAL_TL_KEYS)))
        IN  /\ m.total_cost = cost /\ m.total_cost[2] > 0
            /\ m.profit = RSub(sale, cost) /\ m.profit[2] > 0
            /\ IF sale[1] > 0
               THEN m.margin = Some(RDiv(RSub(sale, cost), sale)) /\ Val(m.margin)[2] > 0
               ELSE m.margin = None /\ m.rate = Zero

\* C13 witness: a Proje sale without a price, with a local rate of 0 and a TL
\* component entered: the component adds nothing (cost 650), the margin is
\* undefined and the rate is 0.
C13_Witness ==
    /\ MetricsDone
    /\ call.r.job_type = Some(Str_Proje)
    /\ call.r.sale_eur = None
    /\ call.r.local_kur = N(0)
    /\ call.r.ic_nakliye_tl = N(100)
    /\ Val(result).total_cost = Int2R(650)
    /\ Val(result).profit = Int2R(-650)
    /\ Val(result).margin = None
    /\ Val(result).rate = Zero

----------------------------------------------------------------------------
(* Properties of the quarterly report, checked under Spec *)

ReportDone == req.pc = "done" /\ req.q # <<>>

\* the chronologically later of a row's two completion dates
LaterIso(r) ==
    IF DateNum(Val(r.collection_done_date)) >= DateNum(Val(r.delivery_done_date))
    THEN Val(r.collection_done_date)
    ELSE Val(r.delivery_done_date)

\* the row is an eligible sale whose derived quarter is q
InQuarter(r, q) ==
    /\ BothDates(r)
    /\ QKey(FromIso(LaterIso(r))[1], QuarterOfMonth(FromIso(LaterIso(r))[2])) = q

\* sum of the override values of the first i stored sales that are eligible
\* sales of pinar or burcu in quarter q (the tables are those the report read:
\* a write by another request ends the rendering)
RECURSIVE OverrideSum(_, _)
OverrideSum(q, i) ==
    IF i = 0 THEN Zero
    ELSE RAdd(OverrideSum(q, i - 1),
              IF sales[i].seller_username \in {"pinar", "burcu"} /\ InQuarter(sales[i], q)
              THEN compute_sale_metrics(sales[i], fetch_eligible_sales_totals(sales),
                                        fetch_targets(targets), settings).override
              ELSE Zero)

\* C7: in the quarterly report for q the overrides of the eligible sales of
\* pinar and burcu in q are accumulated into nilufer's entry and into no other:
\* every other entry's override stays 0 and nilufer's equals their sum.
C7_OverrideToRecipient ==
    ReportDone =>
        /\ DOMAIN req.summary = Sellers
        /\ \A s \in DOMAIN req.summary \ {"nilufer"} : req.summary[s].override = Zero
        /\ req.summary["nilufer"].override = OverrideSum(req.q, Len(sales))

\* C7 witness: the 2026-Q1 report with a sale of pinar (factor 1, override 10)
\* and a sale of burcu (factor 0.5, override 5) shows 15 for nilufer.
C7_Witness ==
    /\ ReportDone
    /\ req.q = Str_Q1
    /\ \E i, j \in 1..Len(sales) :
          /\ sales[i].seller_username = "pinar" /\ InQuarter(sales[i], Str_Q1)
          /\ sales[j].seller_username = "burcu" /\ InQuarter(sales[j], Str_Q1)
    /\ req.summary["pinar"].factor = One
    /\ req.summary["burcu"].factor = Half
    /\ req.summary["nilufer"].override = Int2R(15)

----------------------------------------------------------------------------
(* Properties of the quarter totals, checked under SpecTotals *)

\* the (seller, quarter) key compute_sale_metrics derives for a stored sale
MetricsKey(r) ==
    <<r.seller_username,
      Val(compute_sale_metrics(r, EmptyDict, EmptyDict, settings).quarter)>>

\* the stored sales that compute_sale_metrics finds eligible
EligibleIds(tbl) ==
    {i \in 1..Len(tbl) : compute_sale_metrics(tbl[i], EmptyDict, EmptyDict, settings).eligible}

\* sum of sale_eur over the first i stored sales that are eligible and whose
\* (seller, quarter) key is `key`
RECURSIVE EligibleSum(_, _, _)
EligibleSum(tbl, key, i) ==
    IF i = 0 THEN Zero
    ELSE RAdd(EligibleSum(tbl, key, i - 1),
              IF i \in EligibleIds(tbl) /\ MetricsKey(tbl[i]) = key
              THEN OrZero(tbl[i].sale_eur) ELSE Zero)

\* C11: the totals mapping has exactly one entry per (seller, quarter) key that
\* compute_sale_metrics derives for some eligible stored sale, its value is the
\* sum of sale_eur over the eligible sales with that key, and no other key is
\* present.
C11_TotalsMatchMetrics ==
    LET totals == fetch_eligible_sales_totals(sales)
        keys   == {MetricsKey(sales[i]) : i \in EligibleIds(sales)}
    IN  /\ DOMAIN totals = keys
        /\ \A k \in keys : totals[k] = EligibleSum(sales, k, Len(sales))

\* the year and quarter number a quarter text such as 2026-Q1 denotes
QuarterNum(q) ==
    <<DigitsToInt(SubSeq(q, 1, FirstIdx(q, "-") - 1)), DigitVal(q[Len(q)])>>

\* the stored sales of seller s that are eligible and whose later completion
\* date lies in the quarter that q denotes
SalesIn(s, q) ==
    {i \in 1..Len(sales) :
        /\ sales[i].seller_username = s
        /\ BothDates(sales[i])
        /\ <<FromIso(LaterIso(sales[i]))[1], QuarterOfMonth(FromIso(LaterIso(sales[i]))[2])>>
               = QuarterNum(q)}

\* the commission rate of stored sale i
RateOf(i) ==
    compute_sale_metrics(sales[i], fetch_eligible_sales_totals(sales),
                         fetch_targets(targets), settings).rate

\* C12: in the quarterly report for q, when the target factor of (s, q) is 1
\* and the eligible sales of s in q all have the same rate R, the seller
\* commission accumulated for s equals R times the total of (s, q).
C12_CommissionRoundTrip ==
    ReportDone =>
        \A s \in Sellers : \A i \in SalesIn(s, req.q) :
            (/\ req.summary[s].factor = One
             /\ \A j \in SalesIn(s, req.q) : RateOf(j) = RateOf(i))
            => req.summary[s].seller_comm =
                  RMul(RateOf(i), GetOr(fetch_eligible_sales_totals(sales), <<s, req.q>>, Zero))

----------------------------------------------------------------------------
(* Properties of the sale requests, checked under SpecSales *)

\* the price texts that are missing, no number, or not greater than zero
InvalidPrices == {<<>>, Str_abc, <<"0">>, <<"-", "5">>}

PricePositive(r) == r.sale_eur # None /\ Val(r.sale_eur)[1] > 0 /\ Val(r.sale_eur)[2] > 0

\* C14: every create or edit request leaves every stored sale with a sale
\* price that is present and greater than zero, and a request whose price is
\* missing, unparsable or not greater than zero is not saved and leaves the
\* table as it was.
C14_StoredPricePositive ==
    [][/\ \A i \in 1..Len(sales') : PricePositive(sales'[i])
       /\ (req'.pc = "response" /\ req'.price \in InvalidPrices)
              => (req'.status # "saved" /\ sales' = sales)]_vars

\* C15: a sale is created under the name of the seller who posts it, its
\* seller never changes, only its own seller's edit request changes it, an
\* edit request of another user is answered 403 and changes nothing, and the
\* administrator's create and edit requests are answered 403 and change nothing.
C15_OnlyOwnerMutates ==
    [][/\ Len(sales') >= Len(sales)
       /\ \A i \in 1..Len(sales) :
             /\ sales'[i].seller_username = sales[i].seller_username
             /\ sales'[i] # sales[i] =>
                    /\ req'.op = "edit_sale" /\ req'.sale_id = i
                    /\ req'.user = sales[i].seller_username
       /\ Len(sales') > Len(sales) =>
             /\ req'.op = "new_sale" /\ Len(sales') = Len(sales) + 1
             /\ sales'[Len(sales')].seller_username = req'.user
       /\ (req'.op = "edit_sale" /\ req'.sale_id \in 1..Len(sales)
              /\ req'.user # sales[req'.sale_id].seller_username)
             => (req'.status = "403" /\ sales' = sales)
       /\ req'.user = ADMIN_USERNAME => (req'.status = "403" /\ sales' = sales)]_vars

\* C15 witness: a seller's edit request with a valid price for a sale of
\* another seller has been answered 403.
C15_Witness ==
    /\ req.pc = "response" /\ req.op = "edit_sale" /\ req.status = "403"
    /\ req.user \in Sellers
    /\ req.price = Str_1000
    /\ req.sale_id \in 1..Len(sales)
    /\ sales[req.sale_id].seller_username \in Sellers \ {req.user}
    /\ PricePositive(sales[req.sale_id])

----------------------------------------------------------------------------
(* Properties of the rate and target submissions, checked under SpecAdmin *)

\* the number each target text of the forms stands for
TargetValue(txt) ==
    IF txt = Str_1000 THEN Int2R(1000) ELSE IF txt = Str_1250 THEN Int2R(1250) ELSE Zero

\* the quarters some target row or submission names
KnownQuarters == {r.quarter : r \in targets} \cup {f.quarter : f \in AdminTargetForms}

C17_OnlyAdminConfigures ==
    [][/\ (settings' # settings \/ targets' # targets) =>
             (req'.user = ADMIN_USERNAME /\ req'.op \in {"save_rates", "save_targets"})
       /\ (req'.op \in {"save_rates", "save_targets"} /\ req'.user # ADMIN_USERNAME) =>
             (req'.status = "403" /\ settings' = settings /\ targets' = targets)
       /\ req'.op \in {"new_sale", "edit_sale"} => (settings' = settings /\ targets' = targets)]_vars

\* C17 witness: a seller's rate submission has been answered 403 with a sale
\* stored and the rates still the defaults.
C17_Witness ==
    /\ req.pc = "response" /\ req.op = "save_rates" /\ req.status = "403"
    /\ req.user \in Sellers
    /\ req.form = RateForm(<<"2">>, <<"4">>, <<"5">>)
    /\ settings = Settings(3, 3, 1)
    /\ Len(sales) = 1

----------------------------------------------------------------------------
(* Properties of a read request among interleaved writes, checked under SpecConc *)

\* the read request has scored at least one row
Scoring == req.pc = "score" /\ Len(req.out) >= 1

\* C18: all rows scored in one request are scored against the same totals
\* and the same targets, whatever writes are handled in between.
C18_SameSnapshotPerBatch ==
    Scoring =>
        \A i, j \in 1..Len(req.out) :
            /\ req.out[i].totals = req.out[j].totals
            /\ req.out[i].targets = req.out[j].targets

\* C18 witness: a dashboard, quarterly or export request has scored two sales
\* against one non-empty totals mapping; when the first was scored the stored
\* tables still gave these totals and targets, since then a sale write and a
\* target write have changed both, and the second was scored after a write.
C18_Witness ==
    /\ Scoring /\ req.query \in BatchQueries
    /\ Len(req.out) = 2
    /\ req.out[1].totals = req.out[2].totals
    /\ req.out[2].totals # EmptyDict
    /\ req.out[1].fresh /\ ~req.out[2].fresh
    /\ fetch_eligible_sales_totals(sales) # req.out[2].totals
    /\ fetch_targets(targets) # req.out[2].targets

\* C19: all rows scored in one request are scored with the same three rates,
\* also when a save_rates request is handled in between.
C19_SameRatesPerBatch ==
    Scoring => \A i, j \in 1..Len(req.out) : req.out[i].rates = req.out[j].rates

\* C20: the totals a row is scored against are the totals of the table the
\* row was read from, also when a create or edit request is handled between
\* the request's read of the totals and its read of the rows.
C20_TotalsOfTheRowsRead ==
    Scoring =>
        \A i \in 1..Len(req.out) : req.out[i].totals = fetch_eligible_sales_totals(req.tbl)

----------------------------------------------------------------------------
(* Properties of the seeding of the defaults, checked under SpecStart *)

\* C21: ensure_defaults leaves every stored rate as it is, at the first start
\* and at a restart after any rate submissions, gives each key that is not
\* stored its default (3, 3, 1), and running it once more changes nothing.
C21_DefaultsSeededIfAbsent ==
    [][(req'.pc = "response" /\ req'.op = "ensure_defaults") =>
          /\ DOMAIN settings' = DOMAIN settings \cup RateKeySet
          /\ \A k \in DOMAIN settings : settings'[k] = settings[k]
          /\ \A k \in RateKeySet \ DOMAIN settings : settings'[k] = DefaultOf(k)
          /\ ensure_defaults(settings') = settings']_vars

\* C21 witness: ensure_defaults has run at a restart with all keys stored and
\* rates in store that only a rate submission can have written.
C21_Witness ==
    /\ req.pc = "response" /\ req.op = "ensure_defaults"
    /\ req.seeded = {}
    /\ settings = Settings(2, 4, 5)

----------------------------------------------------------------------------
(* Rejected settings submissions, checked under SpecAdmin *)

\* C22: a save_rates or save_targets request that validation rejects changes
\* neither the stored rates nor the stored targets, also not those of the
\* keys and sellers processed before the invalid value.
C22_RejectedChangesNothing ==
    [][(/\ req'.pc = "response"
        /\ req'.op \in {"save_rates", "save_targets"}
        /\ req'.status = "rejected") =>
          (settings' = settings /\ targets' = targets)]_vars

----------------------------------------------------------------------------
(* The reason text against the amounts, checked under SpecCalc *)

\* C23: whenever compute_sale_metrics returns the reason "commission
\* accrues", the seller commission it returns is greater than 0.
C23_AccruesMeansCommission ==
    (MetricsDone /\ Val(result).reason = R_ACCRUES) =>
        RGt(Val(result).seller_comm, Zero)

----------------------------------------------------------------------------
(* Properties of the stored completion dates, checked under SpecDates *)

\* the metrics of stored row i against the stored tables
StoredMetrics(i) ==
    compute_sale_metrics(sales[i], fetch_eligible_sales_totals(sales),
                         fetch_targets(targets), settings)

\* a stored date is NULL or a date in the form YYYY-MM-DD
NullOrIso(o) ==
    \/ IsNone(o)
    \/ /\ Len(Val(o)) = 10
       /\ ~IsNone(StrpDate(Val(o), "-", 1, 3))
       /\ LET d == Val(StrpDate(Val(o), "-", 1, 3)) IN IsoFormat(d[1], d[2], d[3]) = Val(o)

\* C24: every stored sale has completion dates that are NULL or valid ISO
\* dates, its metrics report a quarter exactly when the sale is eligible, and
\* the reason is never "no quarter".
C24_QuarterIffEligible ==
    \A i \in 1..Len(sales) :
        /\ NullOrIso(sales[i].collection_done_date)
        /\ NullOrIso(sales[i].delivery_done_date)
        /\ (StoredMetrics(i).quarter # None) <=> StoredMetrics(i).eligible
        /\ StoredMetrics(i).reason # R_NO_QUARTER

\* C24 witness: one stored sale was typed with a dotted date and a date of the
\* year 0999 and is eligible with the quarter 2026-Q1; another was typed
\* with a collection date that is no date and has no quarter.
C24_Witness ==
    /\ Len(sales) = 2
    /\ sales[1].collection_done_date = Some(IsoFormat(2026, 3, 31))
    /\ sales[1].delivery_done_date = Some(Str_d0999)
    /\ StoredMetrics(1).eligible /\ StoredMetrics(1).quarter = Some(Str_Q1)
    /\ IsNone(sales[2].collection_done_date)
    /\ sales[2].delivery_done_date = Some(IsoFormat(2026, 4, 1))
    /\ ~StoredMetrics(2).eligible /\ IsNone(StoredMetrics(2).quarter)

----------------------------------------------------------------------------
(* Sellers against each other, checked under SpecSellers *)

\* what compute_sale_metrics yields for row r against the totals and targets
\* given: target factor, rate, seller commission, override and reason
SaleRecord(r, totals, tgts, s) ==
    LET m == compute_sale_metrics(r, totals, tgts, s)
    IN  [target_factor |-> m.target_factor, rate |-> m.rate,
         seller_comm |-> m.seller_comm, override |-> m.override, reason |-> m.reason]

\* the record of stored row i
StoredRecord(i) ==
    SaleRecord(sales[i], fetch_eligible_sales_totals(sales), fetch_targets(targets), settings)

\* C25: a create or edit request of one seller, whatever its response, leaves
\* every stored sale of every other seller in place with the same target
\* factor, rate, seller commission, override and reason (trivially so when
\* the request leaves all three tables as they are).
C25_OtherSellersUnaffected ==
    [][(req'.pc = "response" /\ req'.op \in {"new_sale", "edit_sale"}) =>
          \/ <<sales', settings', targets'>> = <<sales, settings, targets>>
          \/ LET before == fetch_eligible_sales_totals(sales)
                 after  == fetch_eligible_sales_totals(sales')
             IN  \A i \in 1..Len(sales) :
                     sales[i].seller_username # req'.user =>
                         /\ i <= Len(sales')
                         /\ SaleRecord(sales'[i], after, fetch_targets(targets'), settings')
                               = SaleRecord(sales[i], before, fetch_targets(targets), settings)]_vars

\* C25 witness: with the targets stored, pinar's create request has been
\* saved next to burcu's sale: pinar's new sale of 1250 has the target factor
\* 1 and burcu's sale of 1000 has the target factor 0.5 and a commission.
C25_Witness ==
    /\ req.pc = "response" /\ req.op = "new_sale" /\ req.status = "saved"
    /\ req.user = "pinar"
    /\ Len(sales) = 2
    /\ sales[1].seller_username = "burcu" /\ sales[2].seller_username = "pinar"
    /\ StoredRecord(1).target_factor = Half
    /\ StoredRecord(1).reason = R_ACCRUES
    /\ RGt(StoredRecord(1).seller_comm, Zero)
    /\ StoredRecord(2).target_factor = One

====
